---- MODULE Spec2Model ----
(***************************************************************************)
(* Model of node.Init (internal/app/go-filecoin/node/init.go): the         *)
(* bootstrap of a repository with genesis state, a peer identity, a        *)
(* wallet default key, imported keys and the default wallet address.       *)
(*                                                                         *)
(* One invocation of Init is a process that walks through the stages of    *)
(* the function body; every collaborator call (chain.Init, keystore.Put,   *)
(* wallet.NewDSBackend, Wallet.NewKeyInfo, Wallet.Import, KeyInfo.Address, *)
(* Repo.ReplaceConfig) either succeeds or returns an error.                *)
(***************************************************************************)
EXTENDS Integers, Sequences, FiniteSets, TLC

\* ------------------------------------------------------------------ bounds
\* Number of Init calls made on the repository in one behaviour.
MaxRuns == 2
\* Longest option list passed to one Init call.
MaxOpts == 2
\* Longest option list passed to an Init call that runs beside another one.
MaxConcOpts == 1

\* ------------------------------------------------------------------ values
\* Invocations of Init (goroutines calling it).
Callers == {1, 2}
\* The one caller of the sequential specification: the caller guarantees
\* exclusive access to the repository for the duration of the call.
SeqCallers == {1}

\* crypto.PrivKey values: nil, the keypairs a caller may supply, and the
\* keypairs crypto.GenerateKeyPair returns (numbered as they are generated).
NilKey == [src |-> "nil", id |-> 0]
PeerKeys == {[src |-> "opt", id |-> 1], [src |-> "opt", id |-> 2]}
GenPeerKey(n) == [src |-> "gen", id |-> n]

\* *crypto2.KeyInfo values: nil, the records a caller may supply (two well
\* formed, one whose key material is malformed), and the records
\* Wallet.NewKeyInfo generates.
NilInfo == [src |-> "nil", id |-> 0, valid |-> FALSE]
KeyInfos == {[src |-> "opt", id |-> 1, valid |-> TRUE],
             [src |-> "opt", id |-> 2, valid |-> TRUE],
             [src |-> "opt", id |-> 3, valid |-> FALSE]}
\* Mutant: Wallet.NewKeyInfo returns the same record every time.
GenKeyInfo_Fixed(n) == [src |-> "gen", id |-> 1, valid |-> TRUE]

GenKeyInfo(n) == [src |-> "gen", id |-> n, valid |-> TRUE]

\* address.Address values; NoAddr is address.Undef.
NoAddr == [proto |-> "undef", payload |-> 0]

\* KeyInfo.Address(): the address derived from the key material, or an error
\* when the key material is malformed.
Address(ki) ==
  IF ki.valid
    THEN [failed |-> FALSE, addr |-> [proto |-> ki.src, payload |-> ki.id]]
    ELSE [failed |-> TRUE, addr |-> NoAddr]

\* Errors are chains of messages, outermost first; nil is the empty chain.
NoErr == <<>>
\* errors.Wrap(err, msg): nil stays nil.
Wrap(e, msg) == IF e = NoErr THEN NoErr ELSE <<msg>> \o e

\* The messages Init and its helpers wrap collaborator errors with.
MsgGenesis == "Could not Init Node"
MsgCreatePeerKey == "failed to create peer key"
MsgStorePeerKey == "failed to store private key"
MsgWalletOpen == "failed to open wallet datastore"
MsgCreateDefaultKey == "failed to create default key"
MsgImportDefaultKey == "failed to import default key"
MsgAddress == "failed to extract address from default key"
MsgWriteConfig == "failed to write config"

\* The errors the collaborators themselves return.
ErrGenesis == <<"genesis init failed">>
ErrContext == <<"context canceled">>
ErrKeyGen == <<"generate key pair failed">>
ErrKeystore == <<"keystore put failed">>
ErrDSBackend == <<"wallet backend failed">>
ErrNewKey == <<"new key info failed">>
ErrInvalidKey == <<"invalid key material">>
ErrWalletStore == <<"wallet datastore put failed">>
ErrConfigWrite == <<"config write failed">>

\* ----------------------------------------------------------------- options
\* initCfg: the record the options are applied to.
NewInitCfg == [peerKey |-> NilKey, defaultKey |-> NilInfo, initImports |-> <<>>]

\* An InitOpt value: which constructor made it and the argument it closes over.
PeerKeyOpt(k) == [kind |-> "peer", peer |-> k, key |-> NilInfo]
DefaultKeyOpt(ki) == [kind |-> "default", peer |-> NilKey, key |-> ki]
ImportKeyOpt(ki) == [kind |-> "import", peer |-> NilKey, key |-> ki]

Options ==
  {PeerKeyOpt(k) : k \in PeerKeys}
    \cup {DefaultKeyOpt(ki) : ki \in KeyInfos}
    \cup {ImportKeyOpt(ki) : ki \in KeyInfos}

OptLists == UNION {[1..n -> Options] : n \in 0..MaxOpts}

\* Mutant: ImportKeyOpt assigns the list instead of appending to it.
ApplyOpt_ImportAssigns(c, o) ==
  CASE o.kind = "peer" -> [c EXCEPT !.peerKey = o.peer]
    [] o.kind = "default" -> [c EXCEPT !.defaultKey = o.key]
    [] o.kind = "import" -> [c EXCEPT !.initImports = <<o.key>>]

\* o(cfg): the closure of each option applied to the record.
ApplyOpt(c, o) ==
  CASE o.kind = "peer" -> [c EXCEPT !.peerKey = o.peer]
    [] o.kind = "default" -> [c EXCEPT !.defaultKey = o.key]
    [] o.kind = "import" -> [c EXCEPT !.initImports = Append(@, o.key)]

\* for _, o := range opts { o(cfg) }
RECURSIVE ApplyOpts(_, _)
ApplyOpts(c, os) ==
  IF os = <<>> THEN c ELSE ApplyOpts(ApplyOpt(c, Head(os)), Tail(os))

\* ----------------------------------------------------------- collaborators
\* keystore.Put(alias, key) on success: the entry under the alias is the key.
KeystorePut(ks, alias, key) ==
  {e \in ks : e.alias # alias} \cup {[alias |-> alias, key |-> key]}

\* The wallet backend persisting a record: records are keyed by address.
WalletPut(w, ki) ==
  {k \in w : Address(k).addr # Address(ki).addr} \cup {ki}

\* Wallet.Import(ki): the errors it can return for the record.
ImportErrors(ki) ==
  IF Address(ki).failed THEN {ErrInvalidKey} ELSE {ErrWalletStore}

\* Wallet.Import(ki) can succeed for the record.
ImportCanSucceed(ki) == ~Address(ki).failed

\* ------------------------------------------------------------ code guards
\* Mutant: initPeerKey takes the generating branch whatever key it is given.
PeerKeySupplied_Never(c) == FALSE

\* initPeerKey: key == nil is false, a keypair was supplied.
PeerKeySupplied(c) == c.peerKey # NilKey

\* Mutant: initDefaultKey takes the generating branch whatever key it is given.
DefaultKeySupplied_Never(c) == FALSE

\* initDefaultKey: key == nil is false, a default key was supplied.
DefaultKeySupplied(c) == c.defaultKey # NilInfo

\* Mutant: importInitKeys returns without entering its loop.
ImportLoopDone_Always(c, n) == n >= 0

\* Mutant: the import loop stops one record early.
ImportLoopDone_OneEarly(c, n) == n >= Len(c.initImports)

\* importInitKeys: the range loop has passed the last record; n is the
\* position of the next record.
ImportLoopDone(c, n) == n > Len(c.initImports)

\* ------------------------------------------------------------------- state
VARIABLES
  genesis,        \* chain datastore holds genesis state
  keystore,       \* r.Keystore(): set of [alias, key] entries
  wallet,         \* r.WalletDatastore(): set of key records
  memCfg,         \* r.Config(): the in-memory configuration object
  diskCfg,        \* the persisted configuration
  pc,             \* per invocation: the stage about to run
  opts,           \* per invocation: the opts argument (dead after the loop)
  cfg,            \* per invocation: cfg, the initCfg record
  defaultKey,     \* per invocation: defaultKey
  defaultAddress, \* per invocation: defaultAddress
  idx,            \* per invocation: position of the import loop
  err,            \* per invocation: the error Init returned
  ctxDone,        \* per invocation: ctx has been cancelled
  h,              \* per invocation: history of the run (not program state)
  runs,           \* Init calls made so far
  nextPeer,       \* keypairs generated so far
  nextKey         \* wallet keys generated so far

vars == <<genesis, keystore, wallet, memCfg, diskCfg, pc, opts, cfg,
          defaultKey, defaultAddress, idx, err, ctxDone, h, runs,
          nextPeer, nextKey>>

repoVars == <<genesis, keystore, wallet, memCfg, diskCfg>>

\* The repository as a caller sees it.
Snapshot ==
  [genesis |-> genesis, keystore |-> keystore, wallet |-> wallet,
   memCfg |-> memCfg, diskCfg |-> diskCfg]

\* History of one run: the repository when Init was called, the stage whose
\* collaborator failed, what was generated and imported, which import-list
\* positions were attempted, the stages run, in order, and the keypair the
\* run stored under "self".
NewHistory(pre) ==
  [pre |-> pre, failed |-> "none", genPeer |-> 0, genKeys |-> 0,
   impDefault |-> FALSE, attempts |-> <<>>, trace |-> <<>>, peer |-> NilKey]

\* A repository as repo construction leaves it: no genesis, no keys, the
\* default configuration (no default address).
Init ==
  /\ genesis = FALSE
  /\ keystore = {}
  /\ wallet = {}
  /\ memCfg = [defaultAddress |-> NoAddr, other |-> "custom"]
  /\ diskCfg = [defaultAddress |-> NoAddr, other |-> "custom"]
  /\ pc = [i \in Callers |-> "idle"]
  /\ opts = [i \in Callers |-> <<>>]
  /\ cfg = [i \in Callers |-> NewInitCfg]
  /\ defaultKey = [i \in Callers |-> NilInfo]
  /\ defaultAddress = [i \in Callers |-> NoAddr]
  /\ idx = [i \in Callers |-> 0]
  /\ err = [i \in Callers |-> NoErr]
  /\ ctxDone = [i \in Callers |-> FALSE]
  /\ h = [i \in Callers |-> NewHistory(Snapshot)]
  /\ runs = 0
  /\ nextPeer = 0
  /\ nextKey = 0

\* ----------------------------------------------------------------- actions
\* return err: the invocation ends with the error, at the named stage.
Fail(i, stage, e) ==
  /\ pc' = [pc EXCEPT ![i] = "done"]
  /\ err' = [err EXCEPT ![i] = e]
  /\ h' = [h EXCEPT ![i].failed = stage, ![i].trace = Append(@, stage)]

\* Init is called with an option list; the options are applied in order.
Call(i) ==
  /\ pc[i] = "idle"
  /\ runs < MaxRuns
  /\ \E os \in OptLists :
       /\ opts' = [opts EXCEPT ![i] = os]
       /\ cfg' = [cfg EXCEPT ![i] = ApplyOpts(NewInitCfg, os)]
  /\ pc' = [pc EXCEPT ![i] = "genesis"]
  /\ defaultKey' = [defaultKey EXCEPT ![i] = NilInfo]
  /\ defaultAddress' = [defaultAddress EXCEPT ![i] = NoAddr]
  /\ idx' = [idx EXCEPT ![i] = 0]
  /\ err' = [err EXCEPT ![i] = NoErr]
  /\ ctxDone' = [ctxDone EXCEPT ![i] = FALSE]
  /\ h' = [h EXCEPT ![i] = NewHistory(Snapshot)]
  /\ runs' = runs + 1
  /\ UNCHANGED <<repoVars, nextPeer, nextKey>>

\* The caller cancels the context of a running invocation.
Cancel(i) ==
  /\ pc[i] \notin {"idle", "done"}
  /\ ~ctxDone[i]
  /\ ctxDone' = [ctxDone EXCEPT ![i] = TRUE]
  /\ UNCHANGED <<repoVars, pc, opts, cfg, defaultKey, defaultAddress, idx,
                 err, h, runs, nextPeer, nextKey>>

\* Mutant: the error of chain.Init is dropped and the next stage runs.
Genesis_ErrorDropped(i) ==
  /\ pc[i] = "genesis"
  /\ opts' = [opts EXCEPT ![i] = <<>>]
  /\ \/ /\ pc' = [pc EXCEPT ![i] = "peerkey"]
        /\ h' = [h EXCEPT ![i].failed = "genesis",
                          ![i].trace = Append(@, "genesis")]
        /\ UNCHANGED <<genesis, err>>
     \/ /\ ~ctxDone[i]
        /\ genesis' = TRUE
        /\ pc' = [pc EXCEPT ![i] = "peerkey"]
        /\ h' = [h EXCEPT ![i].trace = Append(@, "genesis")]
        /\ UNCHANGED err
  /\ UNCHANGED <<keystore, wallet, memCfg, diskCfg, cfg, defaultKey,
                 defaultAddress, idx, ctxDone, runs, nextPeer, nextKey>>

\* chain.Init: install genesis state, honouring the context.
Genesis(i) ==
  /\ pc[i] = "genesis"
  /\ opts' = [opts EXCEPT ![i] = <<>>]
  /\ \/ /\ ctxDone[i]
        /\ Fail(i, "genesis", Wrap(ErrContext, MsgGenesis))
        /\ UNCHANGED genesis
     \/ /\ ~ctxDone[i]
        /\ Fail(i, "genesis", Wrap(ErrGenesis, MsgGenesis))
        /\ UNCHANGED genesis
     \/ /\ ~ctxDone[i]
        /\ genesis' = TRUE
        /\ pc' = [pc EXCEPT ![i] = "peerkey"]
        /\ h' = [h EXCEPT ![i].trace = Append(@, "genesis")]
        /\ UNCHANGED err
  /\ UNCHANGED <<keystore, wallet, memCfg, diskCfg, cfg, defaultKey,
                 defaultAddress, idx, ctxDone, runs, nextPeer, nextKey>>

\* Mutant: initPeerKey looks for an entry under "self" first and keeps the
\* one it finds.
PeerKey_KeepsExisting(i) ==
  /\ pc[i] = "peerkey"
  /\ LET supplied == PeerKeySupplied(cfg[i])
         exists == \E e \in keystore : e.alias = "self"
         key == IF supplied THEN cfg[i].peerKey ELSE GenPeerKey(nextPeer + 1)
         made == IF supplied \/ exists THEN 0 ELSE 1
     IN \/ /\ ~supplied /\ ~exists
           /\ Fail(i, "peerkey", Wrap(ErrKeyGen, MsgCreatePeerKey))
           /\ UNCHANGED <<keystore, nextPeer>>
        \/ /\ ~exists
           /\ pc' = [pc EXCEPT ![i] = "done"]
           /\ err' = [err EXCEPT ![i] = Wrap(ErrKeystore, MsgStorePeerKey)]
           /\ h' = [h EXCEPT ![i].failed = "peerkey",
                             ![i].genPeer = @ + made,
                             ![i].trace = Append(@, "peerkey")]
           /\ nextPeer' = nextPeer + made
           /\ UNCHANGED keystore
        \/ /\ keystore' = IF exists THEN keystore
                                     ELSE KeystorePut(keystore, "self", key)
           /\ pc' = [pc EXCEPT ![i] = "walletopen"]
           /\ h' = [h EXCEPT ![i].genPeer = @ + made,
                             ![i].trace = Append(@, "peerkey"),
                             ![i].peer = key]
           /\ nextPeer' = nextPeer + made
           /\ UNCHANGED err
  /\ UNCHANGED <<genesis, wallet, memCfg, diskCfg, opts, cfg, defaultKey,
                 defaultAddress, idx, ctxDone, runs, nextKey>>

\* Mutant: initPeerKey tries once more when storing the keypair fails.
PeerKey_RetriesPut(i) ==
  /\ pc[i] = "peerkey"
  /\ LET supplied == PeerKeySupplied(cfg[i])
         key == IF supplied THEN cfg[i].peerKey ELSE GenPeerKey(nextPeer + 1)
         made == IF supplied THEN 0 ELSE 1
         first == h[i].trace = <<"genesis">>
     IN \/ /\ ~supplied
           /\ Fail(i, "peerkey", Wrap(ErrKeyGen, MsgCreatePeerKey))
           /\ UNCHANGED <<keystore, nextPeer>>
        \/ /\ pc' = [pc EXCEPT ![i] = IF first THEN "peerkey" ELSE "done"]
           /\ err' = [err EXCEPT ![i] =
                        IF first THEN @ ELSE Wrap(ErrKeystore, MsgStorePeerKey)]
           /\ h' = [h EXCEPT ![i].failed = IF first THEN @ ELSE "peerkey",
                             ![i].genPeer = @ + made,
                             ![i].trace = Append(@, "peerkey")]
           /\ nextPeer' = nextPeer + made
           /\ UNCHANGED keystore
        \/ /\ keystore' = KeystorePut(keystore, "self", key)
           /\ pc' = [pc EXCEPT ![i] = "walletopen"]
           /\ h' = [h EXCEPT ![i].genPeer = @ + made,
                             ![i].trace = Append(@, "peerkey"),
                             ![i].peer = key]
           /\ nextPeer' = nextPeer + made
           /\ UNCHANGED err
  /\ UNCHANGED <<genesis, wallet, memCfg, diskCfg, opts, cfg, defaultKey,
                 defaultAddress, idx, ctxDone, runs, nextKey>>

\* initPeerKey(r.Keystore(), cfg.peerKey): generate a keypair when none was
\* supplied, then store the keypair under "self".
PeerKey(i) ==
  /\ pc[i] = "peerkey"
  /\ LET supplied == PeerKeySupplied(cfg[i])
         key == IF supplied THEN cfg[i].peerKey ELSE GenPeerKey(nextPeer + 1)
         made == IF supplied THEN 0 ELSE 1
     IN \/ /\ ~supplied
           /\ Fail(i, "peerkey", Wrap(ErrKeyGen, MsgCreatePeerKey))
           /\ UNCHANGED <<keystore, nextPeer>>
        \/ /\ pc' = [pc EXCEPT ![i] = "done"]
           /\ err' = [err EXCEPT ![i] = Wrap(ErrKeystore, MsgStorePeerKey)]
           /\ h' = [h EXCEPT ![i].failed = "peerkey",
                             ![i].genPeer = @ + made,
                             ![i].trace = Append(@, "peerkey")]
           /\ nextPeer' = nextPeer + made
           /\ UNCHANGED keystore
        \/ /\ keystore' = KeystorePut(keystore, "self", key)
           /\ pc' = [pc EXCEPT ![i] = "walletopen"]
           /\ h' = [h EXCEPT ![i].genPeer = @ + made,
                             ![i].trace = Append(@, "peerkey"),
                             ![i].peer = key]
           /\ nextPeer' = nextPeer + made
           /\ UNCHANGED err
  /\ UNCHANGED <<genesis, wallet, memCfg, diskCfg, opts, cfg, defaultKey,
                 defaultAddress, idx, ctxDone, runs, nextKey>>

\* Mutant: the error of wallet.NewDSBackend is returned as it is.
WalletOpen_Unwrapped(i) ==
  /\ pc[i] = "walletopen"
  /\ \/ Fail(i, "walletopen", ErrDSBackend)
     \/ /\ pc' = [pc EXCEPT ![i] = "defaultkey"]
        /\ h' = [h EXCEPT ![i].trace = Append(@, "walletopen")]
        /\ UNCHANGED err
  /\ UNCHANGED <<repoVars, opts, cfg, defaultKey, defaultAddress, idx,
                 ctxDone, runs, nextPeer, nextKey>>

\* Mutant: the wallet is opened only while the context is live.
WalletOpen_ChecksContext(i) ==
  /\ pc[i] = "walletopen"
  /\ \/ /\ ctxDone[i]
        /\ Fail(i, "walletopen", Wrap(ErrContext, MsgWalletOpen))
     \/ /\ ~ctxDone[i]
        /\ Fail(i, "walletopen", Wrap(ErrDSBackend, MsgWalletOpen))
     \/ /\ ~ctxDone[i]
        /\ pc' = [pc EXCEPT ![i] = "defaultkey"]
        /\ h' = [h EXCEPT ![i].trace = Append(@, "walletopen")]
        /\ UNCHANGED err
  /\ UNCHANGED <<repoVars, opts, cfg, defaultKey, defaultAddress, idx,
                 ctxDone, runs, nextPeer, nextKey>>

\* wallet.NewDSBackend(r.WalletDatastore()); wallet.New(backend)
WalletOpen(i) ==
  /\ pc[i] = "walletopen"
  /\ \/ Fail(i, "walletopen", Wrap(ErrDSBackend, MsgWalletOpen))
     \/ /\ pc' = [pc EXCEPT ![i] = "defaultkey"]
        /\ h' = [h EXCEPT ![i].trace = Append(@, "walletopen")]
        /\ UNCHANGED err
  /\ UNCHANGED <<repoVars, opts, cfg, defaultKey, defaultAddress, idx,
                 ctxDone, runs, nextPeer, nextKey>>

\* initDefaultKey(w, cfg.defaultKey): generate the default key when none was
\* supplied, import the supplied one otherwise.
DefaultKey(i) ==
  /\ pc[i] = "defaultkey"
  /\ LET key == cfg[i].defaultKey
         supplied == DefaultKeySupplied(cfg[i])
     IN \/ /\ ~supplied
           /\ Fail(i, "defaultkey", Wrap(ErrNewKey, MsgCreateDefaultKey))
           /\ UNCHANGED <<wallet, defaultKey, idx, nextKey>>
        \/ /\ ~supplied
           /\ wallet' = WalletPut(wallet, GenKeyInfo(nextKey + 1))
           /\ nextKey' = nextKey + 1
           /\ defaultKey' = [defaultKey EXCEPT ![i] = GenKeyInfo(nextKey + 1)]
           /\ idx' = [idx EXCEPT ![i] = 1]
           /\ pc' = [pc EXCEPT ![i] = "imports"]
           /\ h' = [h EXCEPT ![i].genKeys = @ + 1,
                             ![i].trace = Append(@, "defaultkey")]
           /\ UNCHANGED err
        \/ /\ supplied
           /\ \E e \in ImportErrors(key) :
                Fail(i, "defaultkey", Wrap(e, MsgImportDefaultKey))
           /\ UNCHANGED <<wallet, defaultKey, idx, nextKey>>
        \/ /\ supplied
           /\ ImportCanSucceed(key)
           /\ wallet' = WalletPut(wallet, key)
           /\ defaultKey' = [defaultKey EXCEPT ![i] = key]
           /\ idx' = [idx EXCEPT ![i] = 1]
           /\ pc' = [pc EXCEPT ![i] = "imports"]
           /\ h' = [h EXCEPT ![i].impDefault = TRUE,
                             ![i].trace = Append(@, "defaultkey")]
           /\ UNCHANGED <<err, nextKey>>
  /\ UNCHANGED <<genesis, keystore, memCfg, diskCfg, opts, cfg,
                 defaultAddress, ctxDone, runs, nextPeer>>

\* Mutant: a failed import is remembered and the loop goes on to the next
\* record; the error is returned when the loop ends.
ImportKeys_ContinuesAfterError(i) ==
  /\ pc[i] = "imports"
  /\ LET importKeys == cfg[i].initImports
     IN \/ /\ ~ImportLoopDone(cfg[i], idx[i])
           /\ \E e \in ImportErrors(importKeys[idx[i]]) :
                /\ err' = [err EXCEPT ![i] = e]
                /\ h' = [h EXCEPT ![i].failed = "import",
                                  ![i].attempts = Append(@, idx[i]),
                                  ![i].trace = Append(@, "import")]
           /\ idx' = [idx EXCEPT ![i] = @ + 1]
           /\ UNCHANGED <<wallet, pc>>
        \/ /\ ~ImportLoopDone(cfg[i], idx[i])
           /\ ImportCanSucceed(importKeys[idx[i]])
           /\ wallet' = WalletPut(wallet, importKeys[idx[i]])
           /\ idx' = [idx EXCEPT ![i] = @ + 1]
           /\ h' = [h EXCEPT ![i].attempts = Append(@, idx[i]),
                             ![i].trace = Append(@, "import")]
           /\ UNCHANGED <<pc, err>>
        \/ /\ ImportLoopDone(cfg[i], idx[i])
           /\ pc' = [pc EXCEPT ![i] =
                       IF err[i] = NoErr THEN "address" ELSE "done"]
           /\ UNCHANGED <<wallet, idx, err, h>>
  /\ UNCHANGED <<genesis, keystore, memCfg, diskCfg, opts, cfg, defaultKey,
                 defaultAddress, ctxDone, runs, nextPeer, nextKey>>

\* Mutant: when an import fails the wallet is put back as it was when Init
\* was called.
ImportKeys_RollsBack(i) ==
  /\ pc[i] = "imports"
  /\ LET importKeys == cfg[i].initImports
     IN \/ /\ ~ImportLoopDone(cfg[i], idx[i])
           /\ \E e \in ImportErrors(importKeys[idx[i]]) :
                /\ pc' = [pc EXCEPT ![i] = "done"]
                /\ err' = [err EXCEPT ![i] = e]
                /\ h' = [h EXCEPT ![i].failed = "import",
                                  ![i].attempts = Append(@, idx[i]),
                                  ![i].trace = Append(@, "import")]
           /\ wallet' = h[i].pre.wallet
           /\ UNCHANGED idx
        \/ /\ ~ImportLoopDone(cfg[i], idx[i])
           /\ ImportCanSucceed(importKeys[idx[i]])
           /\ wallet' = WalletPut(wallet, importKeys[idx[i]])
           /\ idx' = [idx EXCEPT ![i] = @ + 1]
           /\ h' = [h EXCEPT ![i].attempts = Append(@, idx[i]),
                             ![i].trace = Append(@, "import")]
           /\ UNCHANGED <<pc, err>>
        \/ /\ ImportLoopDone(cfg[i], idx[i])
           /\ pc' = [pc EXCEPT ![i] = "address"]
           /\ UNCHANGED <<wallet, idx, err, h>>
  /\ UNCHANGED <<genesis, keystore, memCfg, diskCfg, opts, cfg, defaultKey,
                 defaultAddress, ctxDone, runs, nextPeer, nextKey>>

\* importInitKeys(w, cfg.initImports): one turn of the loop, or its end.
ImportKeys(i) ==
  /\ pc[i] = "imports"
  /\ LET importKeys == cfg[i].initImports
     IN \/ /\ ~ImportLoopDone(cfg[i], idx[i])
           /\ \E e \in ImportErrors(importKeys[idx[i]]) :
                /\ pc' = [pc EXCEPT ![i] = "done"]
                /\ err' = [err EXCEPT ![i] = e]
                /\ h' = [h EXCEPT ![i].failed = "import",
                                  ![i].attempts = Append(@, idx[i]),
                                  ![i].trace = Append(@, "import")]
           /\ UNCHANGED <<wallet, idx>>
        \/ /\ ~ImportLoopDone(cfg[i], idx[i])
           /\ ImportCanSucceed(importKeys[idx[i]])
           /\ wallet' = WalletPut(wallet, importKeys[idx[i]])
           /\ idx' = [idx EXCEPT ![i] = @ + 1]
           /\ h' = [h EXCEPT ![i].attempts = Append(@, idx[i]),
                             ![i].trace = Append(@, "import")]
           /\ UNCHANGED <<pc, err>>
        \/ /\ ImportLoopDone(cfg[i], idx[i])
           /\ pc' = [pc EXCEPT ![i] = "address"]
           /\ UNCHANGED <<wallet, idx, err, h>>
  /\ UNCHANGED <<genesis, keystore, memCfg, diskCfg, opts, cfg, defaultKey,
                 defaultAddress, ctxDone, runs, nextPeer, nextKey>>

\* Mutant: the address is derived from the last record of the import list
\* when there is one.
DeriveAddress_OfLastImport(i) ==
  /\ pc[i] = "address"
  /\ LET n == Len(cfg[i].initImports)
         a == Address(IF n = 0 THEN defaultKey[i] ELSE cfg[i].initImports[n])
     IN /\ defaultAddress' = [defaultAddress EXCEPT ![i] = a.addr]
        /\ pc' = [pc EXCEPT ![i] = IF a.failed THEN "done" ELSE "setconfig"]
        /\ err' = [err EXCEPT ![i] =
                     IF a.failed THEN Wrap(ErrInvalidKey, MsgAddress) ELSE @]
        /\ h' = [h EXCEPT ![i].failed = IF a.failed THEN "address" ELSE @,
                          ![i].trace = Append(@, "address")]
  /\ UNCHANGED <<repoVars, opts, cfg, defaultKey, idx, ctxDone, runs,
                 nextPeer, nextKey>>

\* defaultAddress, err := defaultKey.Address(). The default key was generated
\* by the wallet or accepted by Wallet.Import, which derives the same address,
\* so the error branch is taken by no record that reaches this stage.
DeriveAddress(i) ==
  /\ pc[i] = "address"
  /\ LET a == Address(defaultKey[i])
     IN /\ defaultAddress' = [defaultAddress EXCEPT ![i] = a.addr]
        /\ pc' = [pc EXCEPT ![i] = IF a.failed THEN "done" ELSE "setconfig"]
        /\ err' = [err EXCEPT ![i] =
                     IF a.failed THEN Wrap(ErrInvalidKey, MsgAddress) ELSE @]
        /\ h' = [h EXCEPT ![i].failed = IF a.failed THEN "address" ELSE @,
                          ![i].trace = Append(@, "address")]
  /\ UNCHANGED <<repoVars, opts, cfg, defaultKey, idx, ctxDone, runs,
                 nextPeer, nextKey>>

\* Mutant: a new configuration object holding the address takes the place of
\* the repository's configuration.
SetConfig_NewObject(i) ==
  /\ pc[i] = "setconfig"
  /\ memCfg' = [defaultAddress |-> defaultAddress[i], other |-> "default"]
  /\ pc' = [pc EXCEPT ![i] = "persist"]
  /\ h' = [h EXCEPT ![i].trace = Append(@, "setconfig")]
  /\ UNCHANGED <<genesis, keystore, wallet, diskCfg, opts, cfg, defaultKey,
                 defaultAddress, idx, err, ctxDone, runs, nextPeer, nextKey>>

\* r.Config().Wallet.DefaultAddress = defaultAddress
SetConfig(i) ==
  /\ pc[i] = "setconfig"
  /\ memCfg' = [memCfg EXCEPT !.defaultAddress = defaultAddress[i]]
  /\ pc' = [pc EXCEPT ![i] = "persist"]
  /\ h' = [h EXCEPT ![i].trace = Append(@, "setconfig")]
  /\ UNCHANGED <<genesis, keystore, wallet, diskCfg, opts, cfg, defaultKey,
                 defaultAddress, idx, err, ctxDone, runs, nextPeer, nextKey>>

\* Mutant: Init returns nil without calling ReplaceConfig.
Persist_NotWritten(i) ==
  /\ pc[i] = "persist"
  /\ pc' = [pc EXCEPT ![i] = "done"]
  /\ h' = [h EXCEPT ![i].trace = Append(@, "persist")]
  /\ UNCHANGED <<genesis, keystore, wallet, memCfg, diskCfg, opts, cfg,
                 defaultKey, defaultAddress, idx, err, ctxDone, runs,
                 nextPeer, nextKey>>

\* Mutant: when ReplaceConfig fails the default address of the in-memory
\* configuration is put back.
Persist_RestoresOnFailure(i) ==
  /\ pc[i] = "persist"
  /\ \/ /\ Fail(i, "persist", Wrap(ErrConfigWrite, MsgWriteConfig))
        /\ memCfg' = h[i].pre.memCfg
        /\ UNCHANGED diskCfg
     \/ /\ diskCfg' = memCfg
        /\ pc' = [pc EXCEPT ![i] = "done"]
        /\ h' = [h EXCEPT ![i].trace = Append(@, "persist")]
        /\ UNCHANGED <<err, memCfg>>
  /\ UNCHANGED <<genesis, keystore, wallet, opts, cfg, defaultKey,
                 defaultAddress, idx, ctxDone, runs, nextPeer, nextKey>>

\* r.ReplaceConfig(r.Config()), then return nil.
Persist(i) ==
  /\ pc[i] = "persist"
  /\ \/ /\ Fail(i, "persist", Wrap(ErrConfigWrite, MsgWriteConfig))
        /\ UNCHANGED diskCfg
     \/ /\ diskCfg' = memCfg
        /\ pc' = [pc EXCEPT ![i] = "done"]
        /\ h' = [h EXCEPT ![i].trace = Append(@, "persist")]
        /\ UNCHANGED err
  /\ UNCHANGED <<genesis, keystore, wallet, memCfg, opts, cfg, defaultKey,
                 defaultAddress, idx, ctxDone, runs, nextPeer, nextKey>>

\* Init has returned: the caller has the result and the frame of the
\* invocation is gone.
Return(i) ==
  /\ pc[i] = "done"
  /\ pc' = [pc EXCEPT ![i] = "idle"]
  /\ cfg' = [cfg EXCEPT ![i] = NewInitCfg]
  /\ defaultKey' = [defaultKey EXCEPT ![i] = NilInfo]
  /\ defaultAddress' = [defaultAddress EXCEPT ![i] = NoAddr]
  /\ idx' = [idx EXCEPT ![i] = 0]
  /\ err' = [err EXCEPT ![i] = NoErr]
  /\ ctxDone' = [ctxDone EXCEPT ![i] = FALSE]
  /\ h' = [h EXCEPT ![i] = NewHistory(Snapshot)]
  /\ UNCHANGED <<repoVars, opts, runs, nextPeer, nextKey>>

\* One stage of the invocation.
Stage(i) ==
  \/ Genesis(i)
  \/ PeerKey(i)
  \/ WalletOpen(i)
  \/ DefaultKey(i)
  \/ ImportKeys(i)
  \/ DeriveAddress(i)
  \/ SetConfig(i)
  \/ Persist(i)

Next == \E i \in SeqCallers : Call(i) \/ Cancel(i) \/ Stage(i) \/ Return(i)

Spec == Init /\ [][Next]_vars

\* Every collaborator call returns: an invocation that has a stage to run
\* runs it.
SpecLive == Spec /\ \A i \in SeqCallers : WF_vars(Stage(i))

\* Two goroutines call Init on the same repository, each with at most
\* MaxConcOpts options. A caller takes the result of its call once no other
\* call is still running.
CallConc(i) ==
  /\ Call(i)
  /\ Len(opts'[i]) <= MaxConcOpts

ReturnConc(i) ==
  /\ \A j \in Callers \ {i} : pc[j] \in {"idle", "done"}
  /\ Return(i)

NextConc ==
  \E i \in Callers : CallConc(i) \/ Cancel(i) \/ Stage(i) \/ ReturnConc(i)

SpecConc == Init /\ [][NextConc]_vars

\* ------------------------------------------------------------ vocabulary
\* Init has returned to caller i; it returned nil.
Done(i) == pc[i] = "done"
Succeeded(i) == Done(i) /\ err[i] = NoErr

\* The key store entries under alias "self".
SelfEntries == {e \in keystore : e.alias = "self"}

\* The address of a record, for records whose address derives.
AddrOf(ki) == Address(ki).addr

\* Init was called with no options: every option sets a non-nil field or
\* appends a record, so the record of an option-less call alone is NewInitCfg.
NoOptions(i) == cfg[i] = NewInitCfg

\* The first i elements of the import list put into a wallet, in order.
RECURSIVE PutAll(_, _, _)
PutAll(w, kis, n) ==
  IF n = 0 THEN w ELSE WalletPut(PutAll(w, kis, n - 1), kis[n])

\* ---------------------------------------------------------------- claims

\* C1 as stated: after a run with no options in which no collaborator failed,
\* on any repository, Init returned nil, the key store has exactly one "self"
\* entry, the wallet holds exactly one record, the generated default key, and
\* the persisted default address is that record's address.
C1_AnyRepository ==
  \A i \in Callers :
    (Done(i) /\ NoOptions(i) /\ h[i].failed = "none") =>
      /\ err[i] = NoErr
      /\ Cardinality(SelfEntries) = 1
      /\ Cardinality(wallet) = 1
      /\ h[i].genKeys = 1
      /\ wallet = {defaultKey[i]}
      /\ diskCfg.defaultAddress = AddrOf(defaultKey[i])

\* C1 amended: the same, for a repository whose wallet is empty when Init is
\* called.
C1_FreshWallet ==
  \A i \in Callers :
    (Done(i) /\ NoOptions(i) /\ h[i].failed = "none"
       /\ h[i].pre.wallet = {}) =>
      /\ err[i] = NoErr
      /\ Cardinality(SelfEntries) = 1
      /\ Cardinality(wallet) = 1
      /\ h[i].genKeys = 1
      /\ wallet = {defaultKey[i]}
      /\ diskCfg.defaultAddress = AddrOf(defaultKey[i])

C1_Witness ==
  \E i \in Callers :
    /\ Succeeded(i) /\ NoOptions(i) /\ h[i].failed = "none"
    /\ h[i].pre.wallet = {}
    /\ defaultKey[i] = GenKeyInfo(1)

\* C2 as stated: after every successful Init the persisted default address is
\* the address of the default key the default-key stage produced, and it is
\* the address of no record of the import list.
C2_NeverImportAddress ==
  \A i \in Callers :
    Succeeded(i) =>
      /\ diskCfg.defaultAddress = AddrOf(defaultKey[i])
      /\ \A j \in 1..Len(cfg[i].initImports) :
           diskCfg.defaultAddress # AddrOf(cfg[i].initImports[j])

\* C2 amended: after every successful Init the persisted default address is
\* the address of the default key, and it is the address of no import-list
\* record other than the default key itself.
C2_DefaultKeyAddress ==
  \A i \in Callers :
    Succeeded(i) =>
      /\ defaultKey[i] # NilInfo
      /\ defaultKey[i] =
           IF cfg[i].defaultKey = NilInfo
             THEN GenKeyInfo(nextKey) ELSE cfg[i].defaultKey
      /\ diskCfg.defaultAddress = AddrOf(defaultKey[i])
      /\ \A j \in 1..Len(cfg[i].initImports) :
           cfg[i].initImports[j] # defaultKey[i] =>
             diskCfg.defaultAddress # AddrOf(cfg[i].initImports[j])

C2_Witness ==
  \E i \in Callers :
    /\ Succeeded(i)
    /\ cfg[i].defaultKey # NilInfo
    /\ Len(cfg[i].initImports) = 1
    /\ cfg[i].initImports[1] # cfg[i].defaultKey
    /\ diskCfg.defaultAddress = AddrOf(cfg[i].defaultKey)

\* C3: when genesis installation fails, Init returns an error wrapped with
\* the genesis message, and the key store, the wallet and both configurations
\* are as they were at the call; nothing was generated, imported or attempted.
C3_GenesisFailureTouchesNothing ==
  \A i \in Callers :
    (Done(i) /\ h[i].failed = "genesis") =>
      /\ err[i] # NoErr
      /\ Head(err[i]) = MsgGenesis
      /\ keystore = h[i].pre.keystore
      /\ wallet = h[i].pre.wallet
      /\ memCfg = h[i].pre.memCfg
      /\ diskCfg = h[i].pre.diskCfg
      /\ h[i].genPeer = 0
      /\ h[i].genKeys = 0
      /\ ~h[i].impDefault
      /\ h[i].attempts = <<>>
      /\ h[i].trace = <<"genesis">>

C3_Witness ==
  \E i \in Callers :
    /\ Done(i) /\ h[i].failed = "genesis"
    /\ cfg[i].peerKey # NilKey
    /\ cfg[i].initImports # <<>>
    /\ err[i] = <<MsgGenesis>> \o ErrGenesis

\* C4: when opening the wallet backend fails, Init returns an error wrapped
\* with the wallet-open message; the key store holds this run's keypair under
\* "self", genesis state is installed, and the wallet and both configurations
\* are as they were at the call.
C4_WalletOpenFailure ==
  \A i \in Callers :
    (Done(i) /\ h[i].failed = "walletopen") =>
      /\ err[i] # NoErr
      /\ Head(err[i]) = MsgWalletOpen
      /\ Cardinality(SelfEntries) = 1
      /\ \A e \in SelfEntries :
           e.key = IF cfg[i].peerKey # NilKey
                     THEN cfg[i].peerKey ELSE GenPeerKey(nextPeer)
      /\ genesis
      /\ wallet = h[i].pre.wallet
      /\ memCfg = h[i].pre.memCfg
      /\ diskCfg = h[i].pre.diskCfg
      /\ h[i].genKeys = 0
      /\ ~h[i].impDefault
      /\ h[i].attempts = <<>>

C4_Witness ==
  \E i \in Callers :
    /\ Done(i) /\ h[i].failed = "walletopen"
    /\ ~h[i].pre.genesis
    /\ h[i].pre.keystore = {}
    /\ SelfEntries # {}

\* C5: when the k-th import fails, Init returns an error; positions 1..k of
\* the import list were attempted, each once and in order, and none after k;
\* the wallet is the wallet of the call plus the default key plus the records
\* before position k (nothing removed); the configuration is not written.
C5_ImportStopsAtFirstFailure ==
  \A i \in Callers :
    (Done(i) /\ h[i].failed = "import") =>
      LET k == Len(h[i].attempts)
          imports == cfg[i].initImports
      IN /\ err[i] # NoErr
         /\ k \in 1..Len(imports)
         /\ h[i].attempts = [j \in 1..k |-> j]
         /\ defaultKey[i] \in wallet
         /\ \A j \in 1..(k - 1) : imports[j] \in wallet
         /\ h[i].pre.wallet \subseteq wallet
         /\ wallet =
              PutAll(WalletPut(h[i].pre.wallet, defaultKey[i]), imports, k - 1)
         /\ memCfg = h[i].pre.memCfg
         /\ diskCfg = h[i].pre.diskCfg

\* The second record fails: the first is in the wallet.
C5_Witness ==
  \E i \in Callers :
    /\ Done(i) /\ h[i].failed = "import"
    /\ Len(cfg[i].initImports) = 2
    /\ h[i].attempts = <<1, 2>>
    /\ cfg[i].initImports[1] \in wallet
    /\ cfg[i].initImports[1] \notin h[i].pre.wallet
    /\ Address(cfg[i].initImports[2]).failed

\* C6: after a successful Init with a peer keypair supplied, the one "self"
\* entry is the supplied keypair and the run generated no keypair; a run
\* generates a keypair only when none is supplied, and then at most one.
C6_SuppliedPeerKeyStored ==
  \A i \in Callers :
    /\ (Succeeded(i) /\ cfg[i].peerKey # NilKey) =>
         /\ SelfEntries = {[alias |-> "self", key |-> cfg[i].peerKey]}
         /\ h[i].genPeer = 0
    /\ (pc[i] # "idle" /\ h[i].genPeer > 0) =>
         /\ cfg[i].peerKey = NilKey
         /\ h[i].genPeer = 1
    /\ (Succeeded(i) /\ cfg[i].peerKey = NilKey) =>
         /\ h[i].genPeer = 1
         /\ SelfEntries = {[alias |-> "self", key |-> GenPeerKey(nextPeer)]}

\* A second run supplies a keypair and replaces the generated one of the first.
C6_Witness ==
  \E i \in Callers :
    /\ Succeeded(i)
    /\ cfg[i].peerKey \in PeerKeys
    /\ h[i].pre.keystore = {[alias |-> "self", key |-> GenPeerKey(1)]}
    /\ SelfEntries = {[alias |-> "self", key |-> cfg[i].peerKey]}

\* C7: after a successful Init on an empty wallet with a default key supplied
\* and no import list, the wallet holds exactly the supplied record, added by
\* import with nothing generated, and the persisted default address is the
\* supplied record's address.
C7_SuppliedDefaultKey ==
  \A i \in Callers :
    (Succeeded(i) /\ cfg[i].defaultKey # NilInfo
       /\ cfg[i].initImports = <<>> /\ h[i].pre.wallet = {}) =>
      /\ wallet = {cfg[i].defaultKey}
      /\ Cardinality(wallet) = 1
      /\ h[i].impDefault
      /\ h[i].genKeys = 0
      /\ ~Address(cfg[i].defaultKey).failed
      /\ diskCfg.defaultAddress = AddrOf(cfg[i].defaultKey)

C7_Witness ==
  \E i \in Callers :
    /\ Succeeded(i)
    /\ cfg[i].defaultKey \in KeyInfos
    /\ cfg[i].initImports = <<>>
    /\ h[i].pre.wallet = {}
    /\ wallet = {cfg[i].defaultKey}

\* The addresses of the records of a list are pairwise distinct.
DistinctAddresses(kis) ==
  \A j, k \in 1..Len(kis) : j # k => AddrOf(kis[j]) # AddrOf(kis[k])

\* C8 as stated: after a successful Init on an empty wallet with N import
\* records of distinct addresses, the wallet holds exactly 1 + N records: the
\* default key and every import record.
C8_OnePlusN ==
  \A i \in Callers :
    (Succeeded(i) /\ h[i].pre.wallet = {}
       /\ DistinctAddresses(cfg[i].initImports)) =>
      LET imports == cfg[i].initImports
      IN /\ Cardinality(wallet) = 1 + Len(imports)
         /\ defaultKey[i] \in wallet
         /\ \A j \in 1..Len(imports) : imports[j] \in wallet

\* C8 amended: the same, when the addresses of the import records are distinct
\* from each other and from the address of the default key.
C8_OnePlusNDistinctFromDefault ==
  \A i \in Callers :
    (Succeeded(i) /\ h[i].pre.wallet = {}
       /\ DistinctAddresses(cfg[i].initImports)
       /\ \A j \in 1..Len(cfg[i].initImports) :
            AddrOf(cfg[i].initImports[j]) # AddrOf(defaultKey[i])) =>
      LET imports == cfg[i].initImports
      IN /\ Cardinality(wallet) = 1 + Len(imports)
         /\ defaultKey[i] \in wallet
         /\ \A j \in 1..Len(imports) : imports[j] \in wallet
         /\ wallet = {defaultKey[i]} \cup {imports[j] : j \in 1..Len(imports)}

C8_Witness ==
  \E i \in Callers :
    /\ Succeeded(i)
    /\ h[i].pre.wallet = {}
    /\ Len(cfg[i].initImports) = 2
    /\ DistinctAddresses(cfg[i].initImports)
    /\ Cardinality(wallet) = 3

\* The position of the last option of a kind in a list, 0 when there is none.
LastOf(os, kind) ==
  LET at == {j \in 1..Len(os) : os[j].kind = kind}
  IN IF at = {} THEN 0 ELSE CHOOSE j \in at : \A k \in at : k <= j

\* The options of a kind in a list, in the order of the list.
OfKind(os, kind) == SelectSeq(os, LAMBDA o : o.kind = kind)

\* C9: when the stages start, nothing has run and the record is built from
\* the options in order: the peer keypair of the last PeerKeyOpt (nil without
\* one), the default key of the last DefaultKeyOpt (nil without one), and the
\* records of all ImportKeyOpt options, in the order given.
C9_OptionsApplied ==
  \A i \in Callers :
    pc[i] = "genesis" =>
      LET os == opts[i]
          p == LastOf(os, "peer")
          d == LastOf(os, "default")
          im == OfKind(os, "import")
      IN /\ cfg[i].peerKey = IF p = 0 THEN NilKey ELSE os[p].peer
         /\ cfg[i].defaultKey = IF d = 0 THEN NilInfo ELSE os[d].key
         /\ cfg[i].initImports = [j \in 1..Len(im) |-> im[j].key]
         /\ h[i].trace = <<>>
         /\ Snapshot = h[i].pre

\* Two ImportKeyOpt options with different records.
C9_Witness ==
  \E i \in Callers :
    /\ pc[i] = "genesis"
    /\ Len(opts[i]) = 2
    /\ opts[i][1].kind = "import" /\ opts[i][2].kind = "import"
    /\ opts[i][1].key # opts[i][2].key
    /\ cfg[i].initImports = <<opts[i][1].key, opts[i][2].key>>

\* The messages the code wraps each stage's error with; importInitKeys and
\* its call in Init have none.
StageMessages(stage) ==
  CASE stage = "genesis" -> {MsgGenesis}
    [] stage = "peerkey" -> {MsgCreatePeerKey, MsgStorePeerKey}
    [] stage = "walletopen" -> {MsgWalletOpen}
    [] stage = "defaultkey" -> {MsgCreateDefaultKey, MsgImportDefaultKey}
    [] stage = "import" -> {}
    [] stage = "address" -> {MsgAddress}
    [] stage = "persist" -> {MsgWriteConfig}
    [] OTHER -> {}

\* C10: whichever stage fails, the error Init returns is wrapped with a
\* description of that stage.
C10_ErrorNamesStage ==
  \A i \in Callers :
    (Done(i) /\ h[i].failed # "none") =>
      /\ err[i] # NoErr
      /\ Len(err[i]) >= 2
      /\ Head(err[i]) \in StageMessages(h[i].failed)

\* C11 as stated: when the k-th import fails, the returned error identifies
\* position k: no failure at another position of the same list returns it.
C11_ErrorNamesPosition ==
  \A i \in Callers :
    (Done(i) /\ h[i].failed = "import") =>
      LET k == Len(h[i].attempts)
          imports == cfg[i].initImports
      IN \A j \in 1..Len(imports) :
           j # k => err[i] \notin ImportErrors(imports[j])

\* C12: after a successful Init the configuration, in memory and persisted,
\* is the in-memory configuration of the call with only the default address
\* changed; after a failure before the commit stage both are unchanged.
C12_OnlyDefaultAddressChanges ==
  \A i \in Callers :
    /\ Succeeded(i) =>
         /\ memCfg = [h[i].pre.memCfg EXCEPT
                        !.defaultAddress = AddrOf(defaultKey[i])]
         /\ diskCfg = memCfg
         /\ memCfg.other = h[i].pre.memCfg.other
         /\ diskCfg.other = h[i].pre.memCfg.other
    /\ (Done(i) /\ h[i].failed \in {"genesis", "peerkey", "walletopen",
                                     "defaultkey", "import", "address"}) =>
         /\ memCfg = h[i].pre.memCfg
         /\ diskCfg = h[i].pre.diskCfg

\* A second run replaces the default address of the first and keeps the rest.
C12_Witness ==
  \E i \in Callers :
    /\ Succeeded(i)
    /\ h[i].pre.diskCfg.defaultAddress # NoAddr
    /\ diskCfg.defaultAddress # h[i].pre.diskCfg.defaultAddress
    /\ diskCfg.other = h[i].pre.memCfg.other

\* C13: when a run on a repository that already holds a "self" entry has
\* stored its keypair, and the keypair of that entry was not supplied to it,
\* the key store holds exactly one "self" entry, the run's keypair, which is
\* not the keypair the entry held at the call.
C13_SelfOverwritten ==
  \A i \in Callers :
    \A e \in {x \in h[i].pre.keystore : x.alias = "self"} :
      (h[i].peer # NilKey /\ cfg[i].peerKey # e.key) =>
        /\ SelfEntries = {[alias |-> "self", key |-> h[i].peer]}
        /\ Cardinality(SelfEntries) = 1
        /\ h[i].peer # e.key
        /\ h[i].peer =
             IF cfg[i].peerKey # NilKey THEN cfg[i].peerKey
                                        ELSE GenPeerKey(nextPeer)

\* Two runs without options: the second generates a keypair of its own.
C13_Witness ==
  \E i \in Callers :
    /\ Succeeded(i)
    /\ NoOptions(i)
    /\ h[i].pre.keystore = {[alias |-> "self", key |-> GenPeerKey(1)]}
    /\ SelfEntries = {[alias |-> "self", key |-> GenPeerKey(2)]}

\* The stages of a run with n import records, in the order of Init's body.
StageOrder(n) ==
  <<"genesis", "peerkey", "walletopen", "defaultkey">>
    \o [j \in 1..n |-> "import"]
    \o <<"address", "setconfig", "persist">>

IsPrefix(s, t) == Len(s) <= Len(t) /\ SubSeq(t, 1, Len(s)) = s

\* The number of stages of run i that have succeeded so far.
StagesOk(i) ==
  IF h[i].failed = "none" THEN Len(h[i].trace) ELSE Len(h[i].trace) - 1

\* C14: at every point of a run the stages started so far are an initial
\* part of the fixed order, the import positions attempted are 1, 2, ... in
\* order, a failed stage is the last one started and ends the run, and the
\* repository differs from the repository at the call by exactly the effects
\* of the stages that succeeded.
C14_StagesInOrder ==
  \A i \in Callers :
    pc[i] # "idle" =>
      LET n == Len(cfg[i].initImports)
          ok == StagesOk(i)
          imported == IF ok - 4 > n THEN n ELSE ok - 4
      IN /\ IsPrefix(h[i].trace, StageOrder(n))
         /\ h[i].attempts = [j \in 1..Len(h[i].attempts) |-> j]
         /\ h[i].failed # "none" =>
              /\ Done(i)
              /\ h[i].trace # <<>>
              /\ h[i].trace[Len(h[i].trace)] = h[i].failed
         /\ genesis = (IF ok >= 1 THEN TRUE ELSE h[i].pre.genesis)
         /\ keystore = IF ok >= 2
                         THEN KeystorePut(h[i].pre.keystore, "self", h[i].peer)
                         ELSE h[i].pre.keystore
         /\ wallet = IF ok >= 4
                       THEN PutAll(WalletPut(h[i].pre.wallet, defaultKey[i]),
                                   cfg[i].initImports, imported)
                       ELSE h[i].pre.wallet
         /\ memCfg = IF ok >= n + 6
                       THEN [h[i].pre.memCfg EXCEPT
                               !.defaultAddress = AddrOf(defaultKey[i])]
                       ELSE h[i].pre.memCfg
         /\ diskCfg = IF ok >= n + 7 THEN memCfg ELSE h[i].pre.diskCfg

\* The second record of the import list failed: genesis, the "self" entry,
\* the default key and the first record stay applied; the configuration is
\* the one at the call.
C14_Witness ==
  \E i \in Callers :
    /\ Done(i)
    /\ h[i].failed = "import"
    /\ h[i].attempts = <<1, 2>>
    /\ h[i].trace = <<"genesis", "peerkey", "walletopen", "defaultkey",
                      "import", "import">>
    /\ cfg[i].initImports[1] \in wallet
    /\ cfg[i].initImports[1] \notin h[i].pre.wallet
    /\ diskCfg = h[i].pre.diskCfg

\* C15: a successful Init with no options leaves a wallet and a persisted
\* default address that are not the ones it found; in particular a second
\* such run does not leave the repository as the first one left it.
C15_NotIdempotent ==
  \A i \in Callers :
    (Succeeded(i) /\ NoOptions(i)) =>
      /\ wallet # h[i].pre.wallet
      /\ diskCfg.defaultAddress # h[i].pre.diskCfg.defaultAddress
      /\ <<genesis, keystore, wallet, memCfg, diskCfg>> #
           <<h[i].pre.genesis, h[i].pre.keystore, h[i].pre.wallet,
             h[i].pre.memCfg, h[i].pre.diskCfg>>

\* The second of two successful runs without options: it was called on the
\* repository the first one left, and leaves a second key and its address.
C15_Witness ==
  \E i \in Callers :
    /\ Succeeded(i)
    /\ NoOptions(i)
    /\ h[i].pre.genesis
    /\ h[i].pre.keystore = {[alias |-> "self", key |-> GenPeerKey(1)]}
    /\ h[i].pre.wallet = {GenKeyInfo(1)}
    /\ h[i].pre.diskCfg.defaultAddress = AddrOf(GenKeyInfo(1))
    /\ wallet = {GenKeyInfo(1), GenKeyInfo(2)}
    /\ diskCfg.defaultAddress = AddrOf(GenKeyInfo(2))

\* What a successful invocation promises: the "self" entry is the keypair it
\* stored, the persisted default address is the address of its default key,
\* and the wallet is the wallet at the call plus the keys it provisioned.
SuccessPost(i) ==
  /\ SelfEntries = {[alias |-> "self", key |-> h[i].peer]}
  /\ diskCfg.defaultAddress = AddrOf(defaultKey[i])
  /\ wallet = PutAll(WalletPut(h[i].pre.wallet, defaultKey[i]),
                     cfg[i].initImports, Len(cfg[i].initImports))

\* C16: an invocation that returns success does so with its postcondition
\* holding unless another invocation is running or has run beside it; the
\* witness is an interleaving in which the postcondition does not hold.
C16_BrokenOnlyByInterleaving ==
  [][\A i \in Callers :
       (~Done(i) /\ Succeeded(i)') =>
         \/ SuccessPost(i)'
         \/ \E j \in Callers \ {i} : pc[j] # "idle"]_vars

\* Invocation i returned success while j, which stored its keypair, added
\* its default key and set its address after i did, has yet to persist: the
\* "self" entry and the persisted address are j's, and the wallet holds j's
\* key besides the ones i provisioned.
C16_Witness ==
  \E i \in Callers : \E j \in Callers \ {i} :
    /\ Succeeded(i)
    /\ pc[j] = "persist"
    /\ SelfEntries # {[alias |-> "self", key |-> h[i].peer]}
    /\ diskCfg.defaultAddress # AddrOf(defaultKey[i])
    /\ diskCfg.defaultAddress = AddrOf(defaultKey[j])
    /\ defaultKey[j] \in wallet
    /\ wallet # PutAll(WalletPut(h[i].pre.wallet, defaultKey[i]),
                       cfg[i].initImports, Len(cfg[i].initImports))

\* C17: no step removes a record from the wallet, and a step that adds one
\* is default-key generation, default-key import or the import of the record
\* at the current position of the import list.
C17_WalletOnlyGrows ==
  [][/\ wallet \subseteq wallet'
     /\ wallet' # wallet =>
          \E i \in Callers :
            \/ /\ pc[i] = "defaultkey"
               /\ cfg[i].defaultKey = NilInfo
               /\ nextKey' = nextKey + 1
               /\ wallet' = wallet \cup {GenKeyInfo(nextKey')}
            \/ /\ pc[i] = "defaultkey"
               /\ cfg[i].defaultKey # NilInfo
               /\ wallet' = wallet \cup {cfg[i].defaultKey}
            \/ /\ pc[i] = "imports"
               /\ idx[i] \in 1..Len(cfg[i].initImports)
               /\ wallet' = wallet \cup {cfg[i].initImports[idx[i]]}]_vars

\* A second run that failed at an import after it had added its default key:
\* the records of the first run and the default key of the failed one are
\* all in the wallet.
C17_Witness ==
  \E i \in Callers :
    /\ Done(i)
    /\ h[i].failed = "import"
    /\ h[i].pre.wallet # {}
    /\ h[i].pre.wallet \subseteq wallet
    /\ defaultKey[i] \in wallet \ h[i].pre.wallet

\* The error chain holds the context's cancellation error.
IsCancellation(e) == \E k \in 1..Len(e) : <<e[k]>> = ErrContext

\* C18: a cancellation error is returned by the genesis stage only; once
\* genesis installation has succeeded a cancelled invocation still has its
\* next stage to run, a stage that fails returns its own collaborator's
\* error, and an invocation that returns nil has run every stage and left
\* its keypair, its keys and its address as an uncancelled one does.
C18_CancellationOnlyInGenesis ==
  \A i \in Callers :
    /\ (Done(i) /\ IsCancellation(err[i])) =>
         /\ h[i].failed = "genesis"
         /\ h[i].trace = <<"genesis">>
    /\ (ctxDone[i] /\ pc[i] \notin {"idle", "genesis", "done"}) =>
         /\ ENABLED Stage(i)
         /\ h[i].failed = "none"
    /\ (ctxDone[i] /\ Done(i) /\ h[i].failed \notin {"none", "genesis"}) =>
         /\ ~IsCancellation(err[i])
         /\ h[i].failed # "import" => Head(err[i]) \in StageMessages(h[i].failed)
         /\ h[i].failed = "import" =>
              err[i] \in ImportErrors(cfg[i].initImports[Len(h[i].attempts)])
    /\ (ctxDone[i] /\ Succeeded(i)) =>
         /\ h[i].trace = StageOrder(Len(cfg[i].initImports))
         /\ SuccessPost(i)

\* The context was cancelled after genesis installation and Init returned
\* nil.
C18_Witness ==
  \E i \in Callers :
    /\ ctxDone[i]
    /\ Succeeded(i)
    /\ h[i].trace[1] = "genesis"
    /\ genesis
    /\ diskCfg.defaultAddress = AddrOf(defaultKey[i])

\* C19: when ReplaceConfig fails Init returns the error wrapped as a config
\* write failure, the persisted configuration is the one at the call, and
\* the in-memory configuration is the one at the call with the default
\* address set to the default key's address; up to and including address
\* derivation, whatever its outcome, neither configuration has changed.
C19_ConfigOnPersistFailure ==
  \A i \in Callers :
    /\ (Done(i) /\ h[i].failed = "persist") =>
         /\ err[i] # NoErr
         /\ Head(err[i]) = MsgWriteConfig
         /\ diskCfg = h[i].pre.diskCfg
         /\ memCfg = [h[i].pre.memCfg EXCEPT
                        !.defaultAddress = AddrOf(defaultKey[i])]
         /\ memCfg.defaultAddress # NoAddr
    /\ (pc[i] \in {"address", "setconfig"} \/ h[i].failed = "address") =>
         /\ memCfg = h[i].pre.memCfg
         /\ diskCfg = h[i].pre.diskCfg

\* ReplaceConfig failed: the in-memory configuration names the new default
\* address and the persisted one does not.
C19_Witness ==
  \E i \in Callers :
    /\ Done(i)
    /\ h[i].failed = "persist"
    /\ memCfg.defaultAddress = AddrOf(defaultKey[i])
    /\ diskCfg.defaultAddress # AddrOf(defaultKey[i])
    /\ diskCfg = h[i].pre.diskCfg

\* The number of times a stage was started in run i.
Started(i, stage) ==
  Cardinality({k \in 1..Len(h[i].trace) : h[i].trace[k] = stage})

\* C20: every invocation that was called returns, given that every
\* collaborator call returns; it returns nil or an error, never both and
\* never neither; every stage outside the import loop is started at most
\* once, the loop makes at most one attempt per record of the import list,
\* and nil is returned only when the last thing done was a successful
\* configuration write.
C20_Terminates ==
  /\ \A i \in SeqCallers : (pc[i] = "genesis") ~> Done(i)
  /\ [](\A i \in Callers :
          /\ \A s \in {"genesis", "peerkey", "walletopen", "defaultkey",
                       "address", "setconfig", "persist"} : Started(i, s) <= 1
          /\ Started(i, "import") = Len(h[i].attempts)
          /\ Len(h[i].attempts) <= Len(cfg[i].initImports)
          /\ Done(i) => (err[i] = NoErr <=> h[i].failed = "none")
          /\ Succeeded(i) =>
               /\ h[i].trace[Len(h[i].trace)] = "persist"
               /\ diskCfg = memCfg)

\* An invocation with two import records returned nil after two attempts.
C20_Witness ==
  \E i \in Callers :
    /\ Succeeded(i)
    /\ Len(cfg[i].initImports) = MaxOpts
    /\ Len(h[i].attempts) = MaxOpts
    /\ Started(i, "persist") = 1
====
